---- MODULE Spec2Model ----
(***************************************************************************)
(* Model of infer_tu_main (nullability inference over one translation      *)
(* unit): the triviality test, the pruning of trivial inferences, the      *)
(* diagnostic printer with its textual-location parser; and of             *)
(* getNullabilityAnnotationsFromType as its unit tests pin it down.        *)
(*                                                                         *)
(* Protobuf messages are records that keep the proto field names:          *)
(*   Evidence       [kind, location]                                       *)
(*   SlotInference  [slot, nullability, conflict, sample_evidence]         *)
(*   Inference      [usr, slot_inference]                                  *)
(* Strings the code parses are sequences of one-character strings.         *)
(***************************************************************************)
EXTENDS Integers, Sequences, FiniteSets, TLC

VARIABLES
    pc,              \* position of the program (or of the harness applying a function)
    Results,         \* `Results` of run(): the collection of Inference records
    inferred,        \* what inferTU returned, before any pruning
    pruned1,         \* the collection after the first pruning pass
    IncludeTrivial,  \* -trivial
    slotIn,          \* argument handed to isTrivial
    trivialOut,      \* what isTrivial returned
    onViolation,     \* what this build does when translateFileLineCol's precondition is violated
    locStr,          \* argument handed to parseLoc
    locOut,          \* what parseLoc returned
    PrintProtos,     \* -protos
    Diagnostics,     \* -diagnostics
    PrintEvidence,   \* -evidence
    outsBuffered,    \* llvm::outs() buffers what it is given: standard output is no terminal
    ast,             \* the declarations of the translation unit, in traversal order
    InferenceByUSR,  \* DiagnosticPrinter::InferenceByUSR: USR -> position in Results
    diags,           \* what was reported to the DiagnosticsEngine, in order
    outs,            \* what was written to llvm::outs() and not lost, one entry per record
    visited,         \* number of declarations TraverseAST has handed to VisitDecl
    lastDiags,       \* what the last VisitDecl reported
    typeIn,          \* the type handed to getNullabilityAnnotationsFromType
    annotations,     \* the vector it returned
    symbol,          \* the symbol handed to aggregate
    perSlotEvidence, \* the evidence handed to aggregate: slot -> evidence items
    aggregated       \* the Inference record it returned

varsPrune == <<Results, inferred, pruned1, IncludeTrivial>>
varsTrivial == <<slotIn, trivialOut>>
varsLoc == <<locStr, locOut>>

\* the options and the environment of a run
varsFlags == <<PrintProtos, Diagnostics, PrintEvidence, outsBuffered>>
varsDiag == <<ast, InferenceByUSR, diags, outs, visited, lastDiags>>

varsType == <<typeIn, annotations>>

varsAgg == <<symbol, perSlotEvidence, aggregated>>

vars == <<pc, varsPrune, varsTrivial, onViolation, varsLoc, varsFlags, varsDiag, varsType, varsAgg>>

-----------------------------------------------------------------------------
(* Bounds *)

\* longest sample_evidence list handed to isTrivial
MaxEvidence == 3
\* records plus slot inferences in a collection handed to the pruning pass
MaxItems == 5
\* longest string handed to parseLoc
MaxLocLen == 5
\* most records inferTU returns in a run
MaxRecords == 2
\* most type constructors applied on top of one another in a type handed to
\* getNullabilityAnnotationsFromType
MaxTypeDepth == 4
\* most evidence items collected for one slot and handed to aggregate
MaxSlotEvidence == 2

-----------------------------------------------------------------------------
(* Data *)

EvidenceKinds ==
    {"ANNOTATED_NONNULL", "ANNOTATED_NULLABLE", "UNCHECKED_DEREFERENCE", "NULLABLE_ARGUMENT"}

Nullabilities == {"UNKNOWN", "NONNULL", "NULLABLE"}

USRs == {"c:@F@f", "c:@F@g"}

RECURSIVE SeqsUpTo(_, _)
SeqsUpTo(S, n) ==
    IF n = 0 THEN {<<>>}
    ELSE LET P == SeqsUpTo(S, n - 1)
         IN  P \cup {Append(q, x) : q \in {p \in P : Len(p) = n - 1}, x \in S}

Ev(k, l) == [kind |-> k, location |-> l]

SI(s, n, c, e) == [slot |-> s, nullability |-> n, conflict |-> c, sample_evidence |-> e]

-----------------------------------------------------------------------------
(* isTrivial *)

RECURSIVE AnnotatedFrom(_, _)
\* the for loop of isTrivial: returns true at the first annotation kind
AnnotatedFrom(ev, i) ==
    IF i > Len(ev) THEN FALSE
    ELSE IF ev[i].kind = "ANNOTATED_NONNULL" \/ ev[i].kind = "ANNOTATED_NULLABLE"
         THEN TRUE
         ELSE AnnotatedFrom(ev, i + 1)

\* mutant: the conflict test is dropped
isTrivialIgnoringConflict(I) == AnnotatedFrom(I.sample_evidence, 1)

isTrivial(I) ==
    IF I.conflict THEN FALSE
    ELSE AnnotatedFrom(I.sample_evidence, 1)

-----------------------------------------------------------------------------
(* The pruning pass of run() *)

RECURSIVE EraseTrivialFrom(_, _)
\* llvm::erase_if(*I.mutable_slot_inference(), isTrivial): the slot inferences
\* for which isTrivial is false, moved to the front in order, the rest erased
EraseTrivialFrom(slots, i) ==
    IF i > Len(slots) THEN <<>>
    ELSE IF isTrivial(slots[i])
         THEN EraseTrivialFrom(slots, i + 1)
         ELSE <<slots[i]>> \o EraseTrivialFrom(slots, i + 1)

RECURSIVE EraseFirstTrivialFrom(_, _)
\* mutant: stops after the first trivial slot inference it erases
EraseFirstTrivialFrom(slots, i) ==
    IF i > Len(slots) THEN <<>>
    ELSE IF isTrivial(slots[i])
         THEN SubSeq(slots, i + 1, Len(slots))
         ELSE <<slots[i]>> \o EraseFirstTrivialFrom(slots, i + 1)

\* mutant of EraseTrivialSlots
EraseFirstTrivialSlot(slots) == EraseFirstTrivialFrom(slots, 1)

EraseTrivialSlots(slots) == EraseTrivialFrom(slots, 1)

\* the lambda's side effect on one Inference
PrunedInference(I) == [I EXCEPT !.slot_inference = EraseTrivialSlots(@)]

\* mutant: an emptied record is kept
NeverErased(I) == FALSE

\* the lambda's return value: slot_inference_size() == 0 after the erase
ErasedByLambda(I) == Len(PrunedInference(I).slot_inference) = 0

RECURSIVE EraseIfFrom(_, _)
\* llvm::erase_if(Results, lambda): every record is pruned, the emptied ones erased
EraseIfFrom(R, i) ==
    IF i > Len(R) THEN <<>>
    ELSE IF ErasedByLambda(R[i])
         THEN EraseIfFrom(R, i + 1)
         ELSE <<PrunedInference(R[i])>> \o EraseIfFrom(R, i + 1)

\* if (!IncludeTrivial) llvm::erase_if(Results, ...)
pruneTrivial(R, includeTrivial) ==
    IF ~includeTrivial THEN EraseIfFrom(R, 1) ELSE R

-----------------------------------------------------------------------------
(* parseLoc: "foo.cc:4:2" back into a SourceLocation *)

Digits == <<"0", "1", "2", "3", "4", "5", "6", "7", "8", "9">>

IsDigit(c) == \E d \in DOMAIN Digits : Digits[d] = c

DigitValue(c) == (CHOOSE d \in DOMAIN Digits : Digits[d] = c) - 1

\* the files FileManager::getOptionalFileRef finds
FilesOnDisk == {<<"a">>, <<"c">>}

\* those of them the SourceManager holds: only these have positions
KnownFiles == {<<"a">>}

\* the lengths of the lines of a file the SourceManager holds; every line but
\* the last ends in a line break
LineLengths(file) == <<7, 7, 7, 7, 7, 7>>

\* SourceLocation(): the invalid location
InvalidLoc == [status |-> "invalid", file |-> <<>>, line |-> 0, col |-> 0]

RECURSIVE LastIndexOf(_, _, _)
\* StringRef::rfind(ch): the last index of ch at or before i, 0 for npos
LastIndexOf(s, ch, i) ==
    IF i = 0 THEN 0
    ELSE IF s[i] = ch THEN i
    ELSE LastIndexOf(s, ch, i - 1)

\* StringRef::rsplit(ch): split on the last ch; without one, (s, "")
rsplit(s, ch) ==
    LET idx == LastIndexOf(s, ch, Len(s))
    IN  IF idx = 0 THEN <<s, <<>>>>
        ELSE <<SubSeq(s, 1, idx - 1), SubSeq(s, idx + 1, Len(s))>>

\* an unsigned is kept as two halves of 16 bits, [hi, lo]: hi * HalfRange + lo
HalfRange == 65536

Unsigned(hi, lo) == [hi |-> hi, lo |-> lo]

IsZero(v) == v.hi = 0 /\ v.lo = 0

\* min(v, n) for an n below HalfRange
AtMost(v, n) == IF v.hi > 0 \/ v.lo > n THEN n ELSE v.lo

RECURSIVE ConsumeDigits(_, _, _)
\* the digit loop of getAsInteger(10, unsigned): fails on a character that is
\* no decimal digit and on a value that does not fit an unsigned (the value
\* only grows, so it fails as soon as it leaves the range)
ConsumeDigits(s, i, acc) ==
    IF i > Len(s) THEN [failed |-> FALSE, value |-> acc]
    ELSE IF ~IsDigit(s[i]) THEN [failed |-> TRUE, value |-> Unsigned(0, 0)]
    ELSE LET lo == acc.lo * 10 + DigitValue(s[i])
             hi == acc.hi * 10 + lo \div HalfRange
         IN  IF hi >= HalfRange THEN [failed |-> TRUE, value |-> Unsigned(0, 0)]
             ELSE ConsumeDigits(s, i + 1, Unsigned(hi, lo % HalfRange))

\* mutant: the empty string parses as 0
getAsIntegerEmptyIsZero(s) == ConsumeDigits(s, 1, Unsigned(0, 0))

\* StringRef::getAsInteger(10, unsigned &): failed is its return value (true on error)
getAsInteger(s) ==
    IF s = <<>> THEN [failed |-> TRUE, value |-> Unsigned(0, 0)]
    ELSE ConsumeDigits(s, 1, Unsigned(0, 0))

RECURSIVE LineStart(_, _)
\* the offset of the first character of line k of a buffer with lines L
LineStart(L, k) == IF k = 1 THEN 0 ELSE LineStart(L, k - 1) + L[k - 1] + 1

BufferSize(L) == LineStart(L, Len(L)) + L[Len(L)]

\* the location at an offset of the file's buffer, as line and column
LocAtOffset(file, L, off) ==
    LET k == CHOOSE k \in DOMAIN L :
                 LineStart(L, k) <= off /\ (k = Len(L) \/ off < LineStart(L, k + 1))
    IN  [status |-> "valid", file |-> file, line |-> k, col |-> off - LineStart(L, k) + 1]

Min(x, y) == IF x <= y THEN x ELSE y

\* the offset at which the line holding offset off ends: that of its line
\* break, or the size of the buffer in the last line
EndOfLine(L, off) ==
    LET k == LocAtOffset(<<>>, L, off).line
    IN  IF k = Len(L) THEN BufferSize(L) ELSE LineStart(L, k) + L[k]

\* SourceManager::translateLineCol for a file it holds: a line past the last
\* one gives the last character of the buffer, a column past the end of the
\* line gives the end of the line. The offset of the line is read from the
\* line table at Line - 1; for a Line of 0 that is the entry before the
\* table, where this library keeps the number of lines.
translateLineCol(file, Line, Col) ==
    LET L    == LineLengths(file)
        Size == BufferSize(L)
    IN  IF AtMost(Line, Len(L) + 1) > Len(L)
        THEN LocAtOffset(file, L, IF Size > 0 THEN Size - 1 ELSE 0)
        ELSE LET FilePos   == IF IsZero(Line) THEN Len(L) ELSE LineStart(L, Line.lo)
                 BufLength == Size - FilePos
                 ToBreak   == EndOfLine(L, FilePos) - FilePos
                 \* Col - 1 as an unsigned, no larger than the rest of the line
                 ColIndex  == IF IsZero(Col) THEN ToBreak
                              ELSE AtMost(Col, ToBreak + 1) - 1
             IN  IF BufLength = 0 THEN LocAtOffset(file, L, FilePos)
                 ELSE LocAtOffset(file, L, FilePos + Min(BufLength - 1, ColIndex))

\* SourceManager::translateFileLineCol(File, Line, Col). It requires Line and
\* Col to start from 1 and asserts so: a call with a 0 aborts where the
\* assertion is compiled in. Where it is not, a file the SourceManager does
\* not hold gives the invalid location, and for a file it holds the 0 goes
\* on into translateLineCol: a Line of 0 reads the line table out of range
\* and a Col of 0 runs to the end of the line.
translateFileLineCol(file, Line, Col, violation) ==
    IF (IsZero(Line) \/ IsZero(Col)) /\ violation = "abort"
    THEN [status |-> "abort", file |-> file, line |-> 0, col |-> 0]
    ELSE IF file \notin KnownFiles THEN InvalidLoc
    ELSE translateLineCol(file, Line, Col)

parseLoc(LocStr, violation) ==
    LET RestCol  == rsplit(LocStr, ":")
        Rest     == RestCol[1]
        ColStr   == RestCol[2]
        NameLine == rsplit(Rest, ":")
        Name     == NameLine[1]
        LineStr  == NameLine[2]
        File     == Name \in FilesOnDisk
        Line     == getAsInteger(LineStr)
    IN  IF ~File \/ Line.failed \/ getAsInteger(ColStr).failed
        THEN InvalidLoc
        ELSE translateFileLineCol(Name, Line.value, getAsInteger(ColStr).value, violation)

-----------------------------------------------------------------------------
(* DiagnosticPrinter *)

\* Slot enumerators of the Inference proto
SLOT_RETURN_TYPE == 0
SLOT_PARAM == 1

slotName(S) ==
    IF S = SLOT_RETURN_TYPE THEN "return type"
    ELSE "parameter " \o ToString(S - SLOT_PARAM)

\* Diags.Report(Loc, DiagSample) << Evidence::Kind_Name(Sample.kind())
ReportSample(Loc, Sample) ==
    [level |-> "note", loc |-> Loc, format |-> "%0 here", args |-> <<Sample.kind>>]

\* mutant: the remark carries the conflict flag
ReportInferHereFlagged(Loc, Slot) ==
    [level |-> "remark", loc |-> Loc, format |-> "would mark %0 as %1 here",
     args |-> <<slotName(Slot.slot),
                IF Slot.conflict THEN Slot.nullability \o " (conflict)" ELSE Slot.nullability>>]

\* Diags.Report(Loc, DiagInferHere) << slotName(Slot.slot())
\*                                  << Inference::Nullability_Name(Slot.nullability())
ReportInferHere(Loc, Slot) ==
    [level |-> "remark", loc |-> Loc, format |-> "would mark %0 as %1 here",
     args |-> <<slotName(Slot.slot), Slot.nullability>>]

\* what a piece of render reported, and whether the process aborted in it
Reported(d, a) == [diags |-> d, aborted |-> a]

RECURSIVE RenderSamples(_, _, _)
\* the loop over Slot.sample_evidence(): a note where parseLoc gives a valid location
RenderSamples(samples, i, violation) ==
    IF i > Len(samples) THEN Reported(<<>>, FALSE)
    ELSE LET Loc == parseLoc(samples[i].location, violation)
         IN  IF Loc.status = "abort" THEN Reported(<<>>, TRUE)
             ELSE LET rest == RenderSamples(samples, i + 1, violation)
                      here == IF Loc.status = "valid"
                              THEN <<ReportSample(Loc, samples[i])>>
                              ELSE <<>>
                  IN  Reported(here \o rest.diags, rest.aborted)

RECURSIVE RenderSlots(_, _, _, _, _)
\* the loop over I.slot_inference(): the remark, then the notes if -evidence
RenderSlots(slots, Loc, i, printEvidence, violation) ==
    IF i > Len(slots) THEN Reported(<<>>, FALSE)
    ELSE LET primary == ReportInferHere(Loc, slots[i])
             notes   == IF printEvidence
                        THEN RenderSamples(slots[i].sample_evidence, 1, violation)
                        ELSE Reported(<<>>, FALSE)
         IN  IF notes.aborted THEN Reported(<<primary>> \o notes.diags, TRUE)
             ELSE LET rest == RenderSlots(slots, Loc, i + 1, printEvidence, violation)
                  IN  Reported(<<primary>> \o notes.diags \o rest.diags, rest.aborted)

render(I, Loc, printEvidence, violation) ==
    RenderSlots(I.slot_inference, Loc, 1, printEvidence, violation)

RECURSIVE TryEmplaceFrom(_, _, _)
\* the constructor's loop: try_emplace keeps the first record of a USR
TryEmplaceFrom(All, i, M) ==
    IF i > Len(All) THEN M
    ELSE IF All[i].usr \in DOMAIN M
         THEN TryEmplaceFrom(All, i + 1, M)
         ELSE TryEmplaceFrom(All, i + 1, M @@ (All[i].usr :> i))

\* DiagnosticPrinter(All, Diags): the index over the records
BuildIndex(All) == TryEmplaceFrom(All, 1, <<>>)

\* what VisitDecl did: its reports, whether the process aborted in it, and
\* its return value (false stops the traversal)
Visit(d, a, r) == [diags |-> d, aborted |-> a, continue |-> r]

\* mutant: a declaration without a USR stops the traversal
VisitDeclStoppingOnFailure(FD, index, All, printEvidence, violation) ==
    IF FD.usrFails THEN Visit(<<>>, FALSE, FALSE)
    ELSE IF FD.usr \in DOMAIN index
         THEN LET r == render(All[index[FD.usr]], FD.loc, printEvidence, violation)
              IN  Visit(r.diags, r.aborted, TRUE)
         ELSE Visit(<<>>, FALSE, TRUE)

\* bool VisitDecl(const Decl *FD): generateUSRForDecl returns true when it
\* fails; InferenceByUSR.lookup gives null for a USR without a record
VisitDeclResult(FD, index, All, printEvidence, violation) ==
    IF ~FD.usrFails
    THEN IF FD.usr \in DOMAIN index
         THEN LET r == render(All[index[FD.usr]], FD.loc, printEvidence, violation)
              IN  Visit(r.diags, r.aborted, TRUE)
         ELSE Visit(<<>>, FALSE, TRUE)
    ELSE Visit(<<>>, FALSE, TRUE)

-----------------------------------------------------------------------------
(* getNullabilityAnnotationsFromType                                       *)
(*                                                                         *)
(* A type is a record [k, n, i, d, a]: the kind of its outermost node, the *)
(* nullability of an attributed node, the index of a template parameter,   *)
(* the declaration a sugar or class node names, and the types under it     *)
(* (pointee, modified type, or template arguments).                        *)

Ty(k, n, i, d, a) == [k |-> k, n |-> n, i |-> i, d |-> d, a |-> a]

Builtin == Ty("builtin", "", 0, "int", <<>>)
Ptr(t) == Ty("pointer", "", 0, "", <<t>>)
\* `t _Nonnull`, `t _Nullable`
Attr(n, t) == Ty("attributed", n, 0, "", <<t>>)
\* a use of a plain alias
Typedef(d) == Ty("typedef", "", 0, d, <<>>)
\* an application of an alias template
AliasApp(d, args) == Ty("alias_template", "", 0, d, args)
\* a use of the i-th template parameter inside the body of a template
Param(i) == Ty("param", "", i, "", <<>>)
\* a class-template specialisation
Class(d, args) == Ty("class", "", 0, d, args)
\* a class nested in a class-template specialisation
Nested(d, args) == Ty("nested", "", 0, d, args)
\* a member alias of a class-template specialisation
Member(d, args) == Ty("member", "", 0, d, args)
\* a type written in parentheses
Paren(t) == Ty("paren", "", 0, "", <<t>>)
\* a template handed to a template template parameter
Template(d) == Ty("template", "", 0, d, <<>>)
\* `typename P<args>::type` inside the body of a template, P its i-th parameter
ParamMember(i, args) == Ty("param_member", "", i, "type", args)
\* `P<args>` inside the body of a template, P its i-th parameter, an alias template
ParamAlias(i, args) == Ty("param_alias", "", i, "", args)
\* `pattern...` inside the body of a template whose parameters are one pack;
\* in the pattern the first parameter stands for the element of the pack
PackExpansion(pattern) == Ty("pack", "", 0, "", <<pattern>>)

\* the declarations of the test preambles
\*   using X = int* _Nonnull;
TypedefBody(d) == Attr("NonNull", Ptr(Builtin))

\*   template <typename T> using Nullable = T _Nullable;
\*   template <typename T> using Nonnull = T _Nonnull;
\*   template <typename T> using Two = Pair<T, T>;
\*   template <typename T1> using A = T1* _Nullable;
\*   template <typename T2> using B = A<T2>* _Nonnull;
AliasTemplateBody(d) ==
    CASE d = "Nullable" -> Attr("Nullable", Param(1))
      [] d = "Nonnull"  -> Attr("NonNull", Param(1))
      [] d = "Two"      -> Class("Pair", <<Param(1), Param(1)>>)
      [] d = "A"        -> Attr("Nullable", Ptr(Param(1)))
      [] d = "B"        -> Attr("NonNull", Ptr(AliasApp("A", <<Param(1)>>)))

\*   template <class T> struct Nullable { using type = T _Nullable; };
\*   template <class T> struct Outer {
\*     template <class U> struct Inner { using type = Pair<U, T>; }; };
\*   template <class U, class WrapT> struct S {
\*     using type = typename WrapT::template Nullable<U>* _Nonnull; };
\*   template <class X> struct Nonnull { using type = X _Nonnull; };
\*   template <template <class> class Nullability, class T> struct Pointer {
\*     using type = typename Nullability<T*>::type; };
\*   the same with alias templates Nullable and Nonnull:
\*     using type = Nullability<T*>; };
\*   template <class... X> struct NullableTuple {
\*     using type = TupleWrapper<X _Nullable...>::Tuple; };
MemberBody(d) ==
    CASE d = "Nullable::type"     -> Attr("Nullable", Param(1))
      [] d = "Nonnull::type"      -> Attr("NonNull", Param(1))
      [] d = "Outer::Inner::type" -> Class("Pair", <<Param(1), Param(2)>>)
      [] d = "S::type"            -> Attr("NonNull", Ptr(AliasApp("Nullable", <<Param(1)>>)))
      [] d = "Pointer::type"      -> ParamMember(1, <<Ptr(Param(2))>>)
      [] d = "Pointer::type (alias templates)" -> ParamAlias(1, <<Ptr(Param(2))>>)
      [] d = "NullableTuple::type" ->
            Nested("TupleWrapper::Tuple", <<PackExpansion(Attr("Nullable", Param(1)))>>)

Front(q) == SubSeq(q, 1, Len(q) - 1)

\* the frames in which a pattern is read for the j-th element of the pack
ElementFrames(frames, j) == Append(Front(frames), <<frames[Len(frames)][j]>>)

RECURSIVE Flatten(_)
Flatten(seqs) == IF seqs = <<>> THEN <<>> ELSE seqs[1] \o Flatten(Tail(seqs))

RECURSIVE Canon(_, _)
RECURSIVE CanonArgs(_, _)
\* the canonical type: every alias expanded, every annotation dropped.
\* frames holds the template arguments of the enclosing applications,
\* innermost last; each is read in the frames before it.
Canon(t, frames) ==
    CASE t.k = "builtin"        -> t
      [] t.k = "pointer"        -> Ptr(Canon(t.a[1], frames))
      [] t.k = "attributed"     -> Canon(t.a[1], frames)
      [] t.k = "paren"          -> Canon(t.a[1], frames)
      [] t.k = "typedef"        -> Canon(TypedefBody(t.d), <<>>)
      [] t.k = "alias_template" -> Canon(AliasTemplateBody(t.d), Append(frames, t.a))
      [] t.k = "param"          -> Canon(frames[Len(frames)][t.i], Front(frames))
      [] t.k = "template"       -> t
      [] t.k = "param_member"   ->
            Canon(Member(frames[Len(frames)][t.i].d \o "::" \o t.d, t.a), frames)
      [] t.k = "param_alias"    -> Canon(AliasApp(frames[Len(frames)][t.i].d, t.a), frames)
      [] t.k = "class"          -> Class(t.d, CanonArgs(t.a, frames))
      [] t.k = "nested"         -> Nested(t.d, CanonArgs(t.a, frames))
      [] t.k = "member"         -> Canon(MemberBody(t.d), <<CanonArgs(t.a, frames)>>)

\* the canonical template arguments: a pack expansion gives one argument per
\* element of the pack
CanonArgs(args, frames) ==
    Flatten([j \in DOMAIN args |->
                IF args[j].k = "pack"
                THEN [e \in DOMAIN frames[Len(frames)] |->
                         Canon(args[j].a[1], ElementFrames(frames, e))]
                ELSE <<Canon(args[j], frames)>>])

\* mutant: the annotation written on a pointer is not recorded
AtPointerUnspecified(pending, pointee) == <<"Unspecified">> \o pointee

\* a pointer level: its annotation, or Unspecified, then the pointee's levels
AtPointer(pending, pointee) ==
    <<IF pending # "" THEN pending ELSE "Unspecified">> \o pointee

\* mutant: a class-template specialisation yields nothing
AtClassNothing(perArg) == <<>>

\* a class-template specialisation: the levels of its template arguments, in order
AtClass(perArg) == Flatten(perArg)

\* a class nested in a class-template specialisation: the arguments of the
\* enclosing specialisation are not included
AtNested(perArg) == <<>>

\* the template arguments a member alias of a class-template specialisation
\* is read with: the canonical ones, their sugar is not tracked
MemberFrames(args, frames) == <<CanonArgs(args, frames)>>

\* mutant: the arguments of an alias-template application are read without
\* their sugar, like those of a class template
AliasFramesCanonical(args, frames) == Append(frames, CanonArgs(args, frames))

\* the template arguments the body of an alias-template application is read
\* with: the arguments as written at this use
AliasFrames(args, frames) == Append(frames, args)

RECURSIVE Walk(_, _, _)
\* the annotations of t outer-to-inner; pending is the annotation met on the
\* way to the next pointer level ("" for none; the outermost one is kept)
Walk(t, frames, pending) ==
    CASE t.k = "builtin"        -> <<>>
      [] t.k = "pointer"        -> AtPointer(pending, Walk(t.a[1], frames, ""))
      [] t.k = "attributed"     ->
            Walk(t.a[1], frames, IF pending # "" THEN pending ELSE t.n)
      [] t.k = "typedef"        -> Walk(TypedefBody(t.d), <<>>, pending)
      [] t.k = "alias_template" ->
            Walk(AliasTemplateBody(t.d), AliasFrames(t.a, frames), pending)
      [] t.k = "param"          -> Walk(frames[Len(frames)][t.i], Front(frames), pending)
      [] t.k = "paren"          -> Walk(t.a[1], frames, pending)
      [] t.k = "template"       -> <<>>
      [] t.k = "param_member"   ->
            Walk(Member(frames[Len(frames)][t.i].d \o "::" \o t.d, t.a), frames, pending)
      [] t.k = "param_alias"    ->
            Walk(AliasApp(frames[Len(frames)][t.i].d, t.a), frames, pending)
      [] t.k = "pack"           ->
            Flatten([e \in DOMAIN frames[Len(frames)] |->
                        Walk(t.a[1], ElementFrames(frames, e), "")])
      [] t.k = "class"          -> AtClass([j \in DOMAIN t.a |-> Walk(t.a[j], frames, "")])
      [] t.k = "nested"         -> AtNested([j \in DOMAIN t.a |-> Walk(t.a[j], frames, "")])
      [] t.k = "member"         ->
            Walk(MemberBody(t.d), MemberFrames(t.a, frames), pending)

getNullabilityAnnotationsFromType(T) == Walk(T, <<>>, "")

-----------------------------------------------------------------------------
(* The evidence aggregator: aggregate(symbol, perSlotEvidence)              *)
(*                                                                         *)
(* inferTU, which run() calls, hands back what the aggregator produced.     *)
(* Its contract: one slot inference per slot that has evidence, built by    *)
(* merging what the slot's evidence items imply, in order.                  *)

\* the slots evidence is collected for: the return type and two parameters
Slots == {SLOT_RETURN_TYPE, SLOT_PARAM, SLOT_PARAM + 1}

\* the nullability an evidence item implies for its slot
Implied(kind) ==
    IF kind = "ANNOTATED_NONNULL" \/ kind = "UNCHECKED_DEREFERENCE"
    THEN "NONNULL"
    ELSE "NULLABLE"

\* mutant: a later item that disagrees is not recorded
MergeFirstWins(acc, n) ==
    IF acc.nullability = "UNKNOWN" THEN [acc EXCEPT !.nullability = n] ELSE acc

\* one implied nullability merged into the running verdict and conflict flag
Merge(acc, n) ==
    IF acc.nullability = "UNKNOWN" THEN [acc EXCEPT !.nullability = n]
    ELSE IF acc.nullability # n THEN [acc EXCEPT !.conflict = TRUE]
    ELSE acc

RECURSIVE MergeFrom(_, _, _)
\* the items of one slot merged in order
MergeFrom(ev, i, acc) ==
    IF i > Len(ev) THEN acc
    ELSE MergeFrom(ev, i + 1, Merge(acc, Implied(ev[i].kind)))

\* the slot inference of a slot with evidence; bestEffort is the verdict the
\* aggregator settles on when the items disagree, which the contract leaves open
aggregateSlot(slot, ev, bestEffort) ==
    LET m == MergeFrom(ev, 1, [nullability |-> "UNKNOWN", conflict |-> FALSE])
    IN  SI(slot, IF m.conflict THEN bestEffort ELSE m.nullability, m.conflict, ev)

RECURSIVE aggregateFrom(_, _, _)
\* the slots in increasing order; a slot without evidence is skipped
aggregateFrom(slot, E, bestEffort) ==
    IF slot \notin DOMAIN E THEN <<>>
    ELSE IF E[slot] = <<>> THEN aggregateFrom(slot + 1, E, bestEffort)
    ELSE <<aggregateSlot(slot, E[slot], bestEffort)>>
             \o aggregateFrom(slot + 1, E, bestEffort)

aggregate(sym, E, bestEffort) ==
    [usr |-> sym, slot_inference |-> aggregateFrom(SLOT_RETURN_TYPE, E, bestEffort)]

-----------------------------------------------------------------------------
(* Values of the variables a specification does not use *)

IdleRun ==
    /\ Results = <<>>
    /\ inferred = <<>>
    /\ pruned1 = <<>>
    /\ IncludeTrivial = FALSE

IdleTrivial ==
    /\ slotIn = SI(0, "UNKNOWN", FALSE, <<>>)
    /\ trivialOut = FALSE

IdleLoc ==
    /\ locStr = <<>>
    /\ locOut = InvalidLoc

IdleDiag ==
    /\ PrintProtos = FALSE
    /\ Diagnostics = FALSE
    /\ PrintEvidence = FALSE
    /\ outsBuffered = FALSE
    /\ ast = <<>>
    /\ InferenceByUSR = <<>>
    /\ diags = <<>>
    /\ outs = <<>>
    /\ visited = 0
    /\ lastDiags = <<>>

IdleType ==
    /\ typeIn = Builtin
    /\ annotations = <<>>

IdleAgg ==
    /\ symbol = ""
    /\ perSlotEvidence = [s \in Slots |-> <<>>]
    /\ aggregated = [usr |-> "", slot_inference |-> <<>>]

-----------------------------------------------------------------------------
(* SpecLoc: parseLoc applied to one string *)

LocAlphabet == {"a", "b", "c", ":", "0", "4", "9"}

ViolationOutcomes == {"abort", "position"}

InitLoc ==
    /\ pc = "parseLoc"
    /\ locStr \in SeqsUpTo(LocAlphabet, MaxLocLen)
    /\ onViolation \in ViolationOutcomes
    /\ locOut = InvalidLoc
    /\ IdleRun
    /\ IdleTrivial
    /\ IdleDiag
    /\ IdleType
    /\ IdleAgg

CallParseLoc ==
    /\ pc = "parseLoc"
    /\ locOut' = parseLoc(locStr, onViolation)
    /\ pc' = "parseLoc_returned"
    /\ UNCHANGED <<varsPrune, varsTrivial, onViolation, locStr, varsFlags, varsDiag, varsType, varsAgg>>

NextLoc == CallParseLoc

SpecLoc == InitLoc /\ [][NextLoc]_vars

\* a string of decimal digits that denotes a positive integer
IsPositiveNumeral(s) ==
    /\ s # <<>>
    /\ \A i \in DOMAIN s : IsDigit(s[i])
    /\ \E i \in DOMAIN s : s[i] # "0"

\* LocStr is file ":" line ":" column with a known file and positive numerals
WellFormedLoc(s) ==
    \E i, j \in DOMAIN s :
        /\ i < j
        /\ s[i] = ":" /\ s[j] = ":"
        /\ \A k \in (i + 1)..Len(s) : k # j => s[k] # ":"
        /\ SubSeq(s, 1, i - 1) \in KnownFiles
        /\ IsPositiveNumeral(SubSeq(s, i + 1, j - 1))
        /\ IsPositiveNumeral(SubSeq(s, j + 1, Len(s)))

RECURSIVE NumeralValue(_)
\* the integer a string of decimal digits denotes
NumeralValue(s) ==
    IF s = <<>> THEN 0
    ELSE NumeralValue(SubSeq(s, 1, Len(s) - 1)) * 10 + DigitValue(s[Len(s)])

\* the file, line and column segments of the string
FileOf(s) == rsplit(rsplit(s, ":")[1], ":")[1]

LineOf(s) == rsplit(rsplit(s, ":")[1], ":")[2]

ColOf(s) == rsplit(s, ":")[2]

\* C5: parseLoc returns a position iff the string is file:line:column with a
\* known file and positive integers for line and column, and the position is
\* then that file, that line and that column; for every other string (a
\* missing segment, a non-numeric or non-positive line or column, an unknown
\* file) it returns the invalid location, and it never aborts.
C5_ParseLocAsClaimed ==
    pc = "parseLoc_returned" =>
        /\ locOut.status # "abort"
        /\ (locOut.status = "valid") = WellFormedLoc(locStr)
        /\ locOut.status = "valid" =>
              /\ locOut.file = FileOf(locStr)
              /\ locOut.line = NumeralValue(LineOf(locStr))
              /\ locOut.col = NumeralValue(ColOf(locStr))

\* the line or the column segment is a numeral that denotes 0
HasZeroSegment(s) ==
    \E seg \in {LineOf(s), ColOf(s)} :
        seg # <<>> /\ \A i \in DOMAIN seg : seg[i] = "0"

\* the position lies in the file: the line is one of its lines and the column
\* is in that line
InFile(s) ==
    /\ NumeralValue(LineOf(s)) <= Len(LineLengths(FileOf(s)))
    /\ NumeralValue(ColOf(s)) <= LineLengths(FileOf(s))[NumeralValue(LineOf(s))]

\* away from a line or column of 0 parseLoc returns a position exactly for
\* the strings claimed and never aborts; the position is the one written when
\* it lies in the file, and the end of the line or of the file when it does not
ParseLocAwayFromZero ==
    (pc = "parseLoc_returned" /\ ~HasZeroSegment(locStr)) =>
        /\ locOut.status # "abort"
        /\ (locOut.status = "valid") = WellFormedLoc(locStr)
        /\ locOut.status = "valid" =>
              /\ locOut.file = FileOf(locStr)
              /\ locOut.line \in DOMAIN LineLengths(locOut.file)
              /\ locOut.col \in 1..(LineLengths(locOut.file)[locOut.line] + 1)
              /\ InFile(locStr) =>
                    /\ locOut.line = NumeralValue(LineOf(locStr))
                    /\ locOut.col = NumeralValue(ColOf(locStr))
        /\ locStr = <<"a", ":", "4", ":", "4">> =>
              locOut = [status |-> "valid", file |-> <<"a">>, line |-> 4, col |-> 4]

\* a position past the end of the file was asked for and the end of the file returned
ParseLocClamped ==
    /\ pc = "parseLoc_returned"
    /\ locStr = <<"a", ":", "9", ":", "4">>
    /\ locOut = [status |-> "valid", file |-> <<"a">>, line |-> 6, col |-> 7]

-----------------------------------------------------------------------------
(* SpecTrivial: isTrivial applied to one slot inference *)

TrivialInputs ==
    {SI(0, "NONNULL", c, e) : c \in BOOLEAN, e \in SeqsUpTo({Ev(k, <<>>) : k \in EvidenceKinds}, MaxEvidence)}

InitTrivial ==
    /\ pc = "isTrivial"
    /\ slotIn \in TrivialInputs
    /\ trivialOut = FALSE
    /\ IdleRun
    /\ onViolation = "abort"
    /\ IdleLoc
    /\ IdleDiag
    /\ IdleType
    /\ IdleAgg

CallIsTrivial ==
    /\ pc = "isTrivial"
    /\ trivialOut' = isTrivial(slotIn)
    /\ pc' = "isTrivial_returned"
    /\ UNCHANGED <<varsPrune, slotIn, onViolation, varsLoc, varsFlags, varsDiag, varsType, varsAgg>>

NextTrivial == CallIsTrivial

SpecTrivial == InitTrivial /\ [][NextTrivial]_vars

-----------------------------------------------------------------------------
(* SpecPrune: the pruning pass applied once and then again *)

\* slot inferences of the collections handed to the pruning pass: trivial and
\* non-trivial ones, told apart by slot and verdict
PruneSlotPool ==
    { SI(0, "NONNULL",  FALSE, <<Ev("ANNOTATED_NONNULL", <<>>)>>),
      SI(1, "NULLABLE", FALSE, <<Ev("UNCHECKED_DEREFERENCE", <<>>), Ev("ANNOTATED_NULLABLE", <<>>)>>),
      SI(0, "NONNULL",  TRUE,  <<Ev("ANNOTATED_NONNULL", <<>>), Ev("NULLABLE_ARGUMENT", <<>>)>>),
      SI(1, "NONNULL",  FALSE, <<Ev("UNCHECKED_DEREFERENCE", <<>>)>>),
      SI(2, "UNKNOWN",  FALSE, <<>>) }

RECURSIVE CollectionsUpTo(_)
\* every collection built from at most n records and slot inferences
CollectionsUpTo(n) ==
    IF n = 0 THEN {<<>>}
    ELSE LET P == CollectionsUpTo(n - 1)
         IN  P \cup {Append(R, [usr |-> u, slot_inference |-> <<>>]) : R \in P, u \in USRs}
               \cup {[R EXCEPT ![Len(R)].slot_inference = Append(@, s)] :
                        R \in {Q \in P : Q # <<>>}, s \in PruneSlotPool}

InitPrune ==
    /\ pc = "prune"
    /\ inferred \in CollectionsUpTo(MaxItems)
    /\ Results = inferred
    /\ pruned1 = <<>>
    /\ IncludeTrivial \in BOOLEAN
    /\ IdleTrivial
    /\ onViolation = "abort"
    /\ IdleLoc
    /\ IdleDiag
    /\ IdleType
    /\ IdleAgg

PruneOnce ==
    /\ pc = "prune"
    /\ Results' = pruneTrivial(Results, IncludeTrivial)
    /\ pruned1' = Results'
    /\ pc' = "pruned"
    /\ UNCHANGED <<inferred, IncludeTrivial, varsTrivial, onViolation, varsLoc, varsFlags, varsDiag, varsType, varsAgg>>

PruneAgain ==
    /\ pc = "pruned"
    /\ Results' = pruneTrivial(Results, IncludeTrivial)
    /\ pc' = "pruned_twice"
    /\ UNCHANGED <<inferred, pruned1, IncludeTrivial, varsTrivial, onViolation, varsLoc, varsFlags, varsDiag, varsType, varsAgg>>

NextPrune == PruneOnce \/ PruneAgain

SpecPrune == InitPrune /\ [][NextPrune]_vars

-----------------------------------------------------------------------------
(* Spec: one run of the tool over a translation unit *)

LocGood        == <<"a", ":", "4", ":", "4">>
LocNoColumn    == <<"a", ":", "4">>
LocUnknownFile == <<"b", ":", "4", ":", "4">>
LocNotLoaded   == <<"c", ":", "4", ":", "4">>
LocAbsent      == <<>>
\* a serialized position may carry line 0: the presumed line of the line
\* that follows `#line 0`
LocLineZero    == <<"a", ":", "0", ":", "4">>

\* records inferTU may return: each is what aggregate makes of its evidence
RecordPool ==
    { [usr |-> "c:@F@f", slot_inference |->
          << SI(0, "NONNULL", FALSE, <<Ev("ANNOTATED_NONNULL", LocGood)>>),
             SI(1, "NULLABLE", TRUE, <<Ev("UNCHECKED_DEREFERENCE", LocGood),
                                       Ev("NULLABLE_ARGUMENT", LocNoColumn)>>) >>],
      [usr |-> "c:@F@f", slot_inference |->
          << SI(1, "NULLABLE", FALSE, <<Ev("NULLABLE_ARGUMENT", LocUnknownFile),
                                        Ev("NULLABLE_ARGUMENT", LocNotLoaded),
                                        Ev("NULLABLE_ARGUMENT", LocGood)>>) >>],
      [usr |-> "c:@F@g", slot_inference |->
          << SI(0, "NONNULL", FALSE, <<Ev("ANNOTATED_NONNULL", LocAbsent)>>) >>],
      [usr |-> "c:@F@g", slot_inference |->
          << SI(1, "NONNULL", FALSE, <<Ev("UNCHECKED_DEREFERENCE", LocLineZero),
                                       Ev("UNCHECKED_DEREFERENCE", LocGood)>>),
             SI(2, "NONNULL", FALSE, <<Ev("UNCHECKED_DEREFERENCE", LocGood)>>) >>],
      [usr |-> "c:@F@h", slot_inference |->
          << SI(0, "NULLABLE", FALSE, <<Ev("NULLABLE_ARGUMENT", LocGood)>>) >>] }

DeclLoc(l, c) == [status |-> "valid", file |-> <<"a">>, line |-> l, col |-> c]

Decl(u, fails, loc) == [usr |-> u, usrFails |-> fails, loc |-> loc]

\* translation units: declarations with a record, without one, without a USR,
\* and a redeclaration
TranslationUnits ==
    { << Decl("c:@F@f", FALSE, DeclLoc(1, 1)),
         Decl("", TRUE, DeclLoc(2, 1)),
         Decl("c:@F@g", FALSE, DeclLoc(3, 1)),
         Decl("c:@F@k", FALSE, DeclLoc(4, 1)),
         Decl("c:@F@f", FALSE, DeclLoc(5, 1)) >>,
      << Decl("c:@F@g", FALSE, DeclLoc(1, 1)),
         Decl("c:@F@f", FALSE, DeclLoc(2, 1)) >> }

Init ==
    /\ pc = "infer"
    /\ IncludeTrivial \in BOOLEAN
    /\ PrintProtos \in BOOLEAN
    /\ Diagnostics \in BOOLEAN
    /\ PrintEvidence \in BOOLEAN
    /\ outsBuffered \in BOOLEAN
    /\ onViolation \in ViolationOutcomes
    /\ ast \in TranslationUnits
    /\ Results = <<>>
    /\ inferred = <<>>
    /\ pruned1 = <<>>
    /\ InferenceByUSR = <<>>
    /\ diags = <<>>
    /\ outs = <<>>
    /\ visited = 0
    /\ lastDiags = <<>>
    /\ IdleTrivial
    /\ IdleLoc
    /\ IdleType
    /\ IdleAgg

\* auto Results = inferTU(Ctx);
RunInfer ==
    /\ pc = "infer"
    /\ \E R \in SeqsUpTo(RecordPool, MaxRecords) :
          /\ Results' = R
          /\ inferred' = R
    /\ pc' = "prune"
    /\ UNCHANGED <<pruned1, IncludeTrivial, varsTrivial, onViolation, varsLoc, varsFlags, varsDiag, varsType, varsAgg>>

\* if (!IncludeTrivial) llvm::erase_if(Results, ...)
RunPrune ==
    /\ pc = "prune"
    /\ Results' = pruneTrivial(Results, IncludeTrivial)
    /\ pruned1' = Results'
    /\ pc' = "protos"
    /\ UNCHANGED <<inferred, IncludeTrivial, varsTrivial, onViolation, varsLoc, varsFlags, varsDiag, varsType, varsAgg>>

\* if (PrintProtos) for (const auto &I : Results) llvm::outs() << I.DebugString()
RunPrintProtos ==
    /\ pc = "protos"
    /\ outs' = IF PrintProtos THEN outs \o Results ELSE outs
    /\ pc' = "diagnostics"
    /\ UNCHANGED <<varsPrune, varsTrivial, onViolation, varsLoc, varsFlags,
                   ast, InferenceByUSR, diags, visited, lastDiags, varsType, varsAgg>>

\* if (Diagnostics) DiagnosticPrinter(Results, Ctx.getDiagnostics()) : the constructor
RunDiagnostics ==
    /\ pc = "diagnostics"
    /\ IF Diagnostics
       THEN /\ InferenceByUSR' = BuildIndex(Results)
            /\ pc' = "traverse"
       ELSE /\ InferenceByUSR' = InferenceByUSR
            /\ pc' = "done"
    /\ UNCHANGED <<varsPrune, varsTrivial, onViolation, varsLoc, varsFlags,
                   ast, diags, outs, visited, lastDiags, varsType, varsAgg>>

\* TraverseAST hands the next declaration to VisitDecl. When the process
\* aborts in it, what llvm::outs() still holds in its buffer is never printed
\* (the records of a run are far smaller than the buffer).
VisitDecl ==
    /\ pc = "traverse"
    /\ visited < Len(ast)
    /\ LET v == VisitDeclResult(ast[visited + 1], InferenceByUSR, Results,
                                PrintEvidence, onViolation)
       IN  /\ diags' = diags \o v.diags
           /\ lastDiags' = v.diags
           /\ visited' = visited + 1
           /\ outs' = IF v.aborted /\ outsBuffered THEN <<>> ELSE outs
           /\ pc' = IF v.aborted THEN "aborted"
                    ELSE IF ~v.continue THEN "done"
                    ELSE "traverse"
    /\ UNCHANGED <<varsPrune, varsTrivial, onViolation, varsLoc, varsFlags,
                   ast, InferenceByUSR, varsType, varsAgg>>

\* TraverseAST returns when every declaration was visited
TraverseEnd ==
    /\ pc = "traverse"
    /\ visited = Len(ast)
    /\ pc' = "done"
    /\ UNCHANGED <<varsPrune, varsTrivial, onViolation, varsLoc, varsFlags, varsDiag, varsType, varsAgg>>

Next ==
    \/ RunInfer
    \/ RunPrune
    \/ RunPrintProtos
    \/ RunDiagnostics
    \/ VisitDecl
    \/ TraverseEnd

Spec == Init /\ [][Next]_vars

-----------------------------------------------------------------------------
(* SpecTypes: getNullabilityAnnotationsFromType applied to one type *)

IsPointerType(t) == Canon(t, <<>>).k = "pointer"

\* a nullability annotation applies to a pointer that has none yet
Annotatable(t) == IsPointerType(t) /\ Walk(t, <<>>, "")[1] = "Unspecified"

RECURSIVE TypesUpTo(_)
\* the types written with at most n constructors on top of one another
TypesUpTo(n) ==
    IF n = 0 THEN {Builtin, Typedef("X")}
    ELSE LET P == TypesUpTo(n - 1)
             Q == {t \in P : Annotatable(t)}
         IN  P \cup {Ptr(t) : t \in P}
               \cup {Attr(nk, t) : nk \in {"NonNull", "Nullable"}, t \in Q}
               \cup {AliasApp(d, <<t>>) : d \in {"Nullable", "Nonnull"}, t \in Q}
               \cup {AliasApp(d, <<t>>) : d \in {"A", "B", "Two"}, t \in P}
               \cup {Class("Pair", <<t, Builtin>>) : t \in P}
               \cup {Nested("Outer::Inner", <<t>>) : t \in P}
               \cup {Member("Nullable::type", <<t>>) : t \in Q}

Case(l, t, e) == [line |-> l, type |-> t, expected |-> e]

PointerOf(suffix, nullability, T) ==
    Member("Pointer::type" \o suffix, <<Template(nullability), T>>)

\* every type the unit tests parse, with the line of the assertion and the
\* vector it expects
TestCases ==
    { Case(34, Builtin, <<>>),
      Case(35, Ptr(Builtin), <<"Unspecified">>),
      Case(36, Ptr(Ptr(Builtin)), <<"Unspecified", "Unspecified">>),
      Case(38, Attr("NonNull", Ptr(Attr("Nullable", Ptr(Builtin)))), <<"NonNull", "Nullable">>),
      Case(45, Typedef("X"), <<"NonNull">>),
      Case(46, Ptr(Typedef("X")), <<"Unspecified", "NonNull">>),
      Case(49, Ptr(Paren(Typedef("X"))), <<"Unspecified", "NonNull">>),
      Case(60, AliasApp("Nullable", <<Ptr(Builtin)>>), <<"Nullable">>),
      Case(63, AliasApp("Nullable", <<Ptr(AliasApp("Nullable", <<Ptr(Builtin)>>))>>),
           <<"Nullable", "Nullable">>),
      Case(67, AliasApp("Nullable", <<Ptr(AliasApp("Nullable",
                   <<Ptr(AliasApp("Nonnull", <<Ptr(Builtin)>>))>>))>>),
           <<"Nullable", "Nullable", "NonNull">>),
      Case(77, AliasApp("Two", <<Attr("Nullable", Ptr(Builtin))>>), <<"Nullable", "Nullable">>),
      Case(87, AliasApp("B", <<Builtin>>), <<"NonNull", "Nullable">>),
      Case(100, Member("Nullable::type", <<Ptr(Attr("NonNull", Ptr(Builtin)))>>),
           <<"Nullable", "Unspecified">>),
      Case(115, Nested("Outer::Inner", <<Attr("NonNull", Ptr(Builtin))>>), <<>>),
      Case(133, Member("Outer::Inner::type",
                       <<Attr("NonNull", Ptr(Builtin)), Attr("Nullable", Ptr(Builtin))>>),
           <<"Unspecified", "Unspecified">>),
      Case(151, Member("S::type", <<Ptr(Builtin)>>), <<"NonNull", "Nullable">>),
      Case(172, PointerOf("", "Nullable", Builtin), <<"Nullable">>),
      Case(175, PointerOf("", "Nullable", PointerOf("", "Nonnull", Builtin)),
           <<"Nullable", "Unspecified">>),
      Case(190, PointerOf(" (alias templates)", "Nullable", Builtin), <<"Nullable">>),
      Case(193, PointerOf(" (alias templates)", "Nullable",
                          PointerOf(" (alias templates)", "Nonnull", Builtin)),
           <<"Nullable", "Unspecified">>),
      Case(212, Nested("TupleWrapper::Tuple", <<Ptr(Builtin), Attr("NonNull", Ptr(Builtin))>>),
           <<>>),
      Case(215, Member("NullableTuple::type", <<Ptr(Builtin), Attr("NonNull", Ptr(Builtin))>>),
           <<>>) }

\* the model returns what every unit test expects
TestExpectationsHold ==
    /\ Cardinality(TestCases) = 22
    /\ \A c \in TestCases : getNullabilityAnnotationsFromType(c.type) = c.expected

InitTypes ==
    /\ pc = "extract"
    /\ typeIn \in TypesUpTo(MaxTypeDepth)
    /\ annotations = <<>>
    /\ IdleRun
    /\ IdleTrivial
    /\ onViolation = "abort"
    /\ IdleLoc
    /\ IdleDiag
    /\ IdleAgg

CallGetNullabilityAnnotations ==
    /\ pc = "extract"
    /\ annotations' = getNullabilityAnnotationsFromType(typeIn)
    /\ pc' = "extract_returned"
    /\ UNCHANGED <<varsPrune, varsTrivial, onViolation, varsLoc, varsFlags, varsDiag, typeIn, varsAgg>>

NextTypes == CallGetNullabilityAnnotations

SpecTypes == InitTypes /\ [][NextTypes]_vars

-----------------------------------------------------------------------------
(* SpecAggregate: aggregate applied to the evidence of one symbol *)

\* the evidence lists a slot may have collected
EvidenceLists == SeqsUpTo({Ev(k, <<>>) : k \in EvidenceKinds}, MaxSlotEvidence)

InitAggregate ==
    /\ pc = "aggregate"
    /\ symbol \in USRs
    /\ perSlotEvidence \in [Slots -> EvidenceLists]
    /\ aggregated = [usr |-> "", slot_inference |-> <<>>]
    /\ IdleRun
    /\ IdleTrivial
    /\ onViolation = "abort"
    /\ IdleLoc
    /\ IdleDiag
    /\ IdleType

CallAggregate ==
    /\ pc = "aggregate"
    /\ \E bestEffort \in Nullabilities :
          aggregated' = aggregate(symbol, perSlotEvidence, bestEffort)
    /\ pc' = "aggregate_returned"
    /\ UNCHANGED <<varsPrune, varsTrivial, onViolation, varsLoc, varsFlags, varsDiag,
                   varsType, symbol, perSlotEvidence>>

NextAggregate == CallAggregate

SpecAggregate == InitAggregate /\ [][NextAggregate]_vars

-----------------------------------------------------------------------------
(* Claims about isTrivial and pruning *)

IsAnnotationKind(k) == k \in {"ANNOTATED_NONNULL", "ANNOTATED_NULLABLE"}

\* triviality as the data model defines it
TrivialByDefinition(I) ==
    /\ I.conflict = FALSE
    /\ \E i \in DOMAIN I.sample_evidence : IsAnnotationKind(I.sample_evidence[i].kind)

NotTrivialByDefinition(I) == ~TrivialByDefinition(I)

HasSlots(I) == I.slot_inference # <<>>

\* R with the trivial slot inferences filtered out of each record, then the
\* records without slot inferences filtered out
PrunedByDefinition(R) ==
    SelectSeq([i \in DOMAIN R |->
                  [R[i] EXCEPT !.slot_inference = SelectSeq(@, NotTrivialByDefinition)]],
              HasSlots)

\* C1: with includeTrivial = false the pruning pass returns exactly the input
\* with every trivial slot inference removed from each record and then every
\* record left without slot inferences removed; what survives keeps its order
\* and its slot, verdict, conflict flag and evidence list.
C1_PruneIsExactFilter ==
    (pc \in {"pruned", "pruned_twice"} /\ ~IncludeTrivial)
        => pruned1 = PrunedByDefinition(inferred)

\* a pruning pass that dropped a record whose only slot inference is trivial
\* and removed the trivial one of the two slot inferences of the next record
C1_Witness ==
    /\ pc = "pruned"
    /\ ~IncludeTrivial
    /\ Len(inferred) = 2
    /\ Len(inferred[1].slot_inference) = 1
    /\ TrivialByDefinition(inferred[1].slot_inference[1])
    /\ Len(inferred[2].slot_inference) = 2
    /\ TrivialByDefinition(inferred[2].slot_inference[1])
    /\ ~TrivialByDefinition(inferred[2].slot_inference[2])
    /\ Len(pruned1) = 1

\* C2: isTrivial is true iff conflict = false and the evidence holds at least
\* one ANNOTATED_NONNULL or ANNOTATED_NULLABLE item; so it is false under
\* conflict, false for empty evidence, false when no item is an annotation.
C2_TrivialIff ==
    pc = "isTrivial_returned" =>
        /\ trivialOut = TrivialByDefinition(slotIn)
        /\ (slotIn.conflict => trivialOut = FALSE)
        /\ (slotIn.sample_evidence = <<>> => trivialOut = FALSE)
        /\ ((\A i \in DOMAIN slotIn.sample_evidence :
                ~IsAnnotationKind(slotIn.sample_evidence[i].kind)) => trivialOut = FALSE)

\* isTrivial returned true for an annotation that comes after other evidence
C2_Witness ==
    /\ pc = "isTrivial_returned"
    /\ trivialOut = TRUE
    /\ Len(slotIn.sample_evidence) = 3
    /\ slotIn.sample_evidence[1].kind = "UNCHECKED_DEREFERENCE"
    /\ slotIn.sample_evidence[3].kind = "ANNOTATED_NULLABLE"

\* C3: pruning is idempotent: a second pass over a pruned collection returns
\* the same records, slot inferences and order.
C3_PruneIdempotent ==
    pc = "pruned_twice" => Results = pruned1

\* a second pass over a collection whose first pass removed something
C3_Witness ==
    /\ pc = "pruned_twice"
    /\ ~IncludeTrivial
    /\ pruned1 # inferred
    /\ pruned1 # <<>>

-----------------------------------------------------------------------------
(* Claims about the diagnostic printer *)

Traversing == pc \in {"traverse", "done", "aborted"} /\ Diagnostics

IsRemark(d) == d.level = "remark"

\* the declaration has a USR and the index holds it
Matched(FD) == ~FD.usrFails /\ FD.usr \in DOMAIN InferenceByUSR

MatchedRecord(FD) == Results[InferenceByUSR[FD.usr]]

\* the slot name of the primary diagnostic: "return type" for slot 0,
\* "parameter N" counted from 0 otherwise
ClaimedSlotName(S) == IF S = 0 THEN "return type" ELSE "parameter " \o ToString(S - 1)

\* 'would mark <slot name> as <verdict name> here' at the declaration
ClaimedPrimary(FD, Slot) ==
    [level |-> "remark", loc |-> FD.loc, format |-> "would mark %0 as %1 here",
     args |-> <<ClaimedSlotName(Slot.slot), Slot.nullability>>]

\* one primary diagnostic per slot inference of the matched record, none
\* for a declaration that matches no record
ClaimedPrimaries(FD) ==
    IF Matched(FD)
    THEN [k \in DOMAIN MatchedRecord(FD).slot_inference |->
             ClaimedPrimary(FD, MatchedRecord(FD).slot_inference[k])]
    ELSE <<>>

RECURSIVE ClaimedPrimariesUpTo(_)
ClaimedPrimariesUpTo(n) ==
    IF n = 0 THEN <<>> ELSE ClaimedPrimariesUpTo(n - 1) \o ClaimedPrimaries(ast[n])

\* the item's textual position resolves to a valid position
Resolves(Sample) == parseLoc(Sample.location, onViolation).status = "valid"

\* '<evidence kind> here' at the resolved position
ClaimedNote(Sample) ==
    [level |-> "note", loc |-> parseLoc(Sample.location, onViolation),
     format |-> "%0 here", args |-> <<Sample.kind>>]

ClaimedNotes(Slot) ==
    IF PrintEvidence
    THEN LET resolving == SelectSeq(Slot.sample_evidence, Resolves)
         IN  [k \in DOMAIN resolving |-> ClaimedNote(resolving[k])]
    ELSE <<>>

RECURSIVE ClaimedSlotsFrom(_, _, _)
\* per slot inference from the k-th on: the primary diagnostic, then its notes
ClaimedSlotsFrom(FD, slots, k) ==
    IF k > Len(slots) THEN <<>>
    ELSE <<ClaimedPrimary(FD, slots[k])>> \o ClaimedNotes(slots[k])
            \o ClaimedSlotsFrom(FD, slots, k + 1)

ClaimedDiags(FD) ==
    IF Matched(FD) THEN ClaimedSlotsFrom(FD, MatchedRecord(FD).slot_inference, 1) ELSE <<>>

RECURSIVE ClaimedDiagsUpTo(_)
ClaimedDiagsUpTo(n) ==
    IF n = 0 THEN <<>> ELSE ClaimedDiagsUpTo(n - 1) \o ClaimedDiags(ast[n])

\* C4: for every declaration visited, one primary diagnostic is emitted per
\* slot inference of the record its identifier matches in the index, each at
\* the declaration's position, and none if the index does not hold the
\* identifier; the traversal goes on with the next declaration.
C4_PrimaryPerSlotAsClaimed ==
    Traversing => SelectSeq(diags, IsRemark) = ClaimedPrimariesUpTo(visited)

\* C6: with evidence rendering enabled a note is emitted for an evidence item
\* exactly when its textual position resolves; an item whose position is
\* absent or does not resolve produces no note and changes nothing else: the
\* primary diagnostics, the other notes and the diagnostics of later slots
\* and declarations are emitted all the same. With evidence rendering
\* disabled no note is emitted.
C6_NotesAsClaimed ==
    Traversing => diags = ClaimedDiagsUpTo(visited)

\* in a run that has not aborted inside parseLoc, every diagnostic is as C4
\* and C6 state
PrinterAsClaimedUnlessAborted ==
    (Traversing /\ pc # "aborted") =>
        /\ diags = ClaimedDiagsUpTo(visited)
        /\ SelectSeq(diags, IsRemark) = ClaimedPrimariesUpTo(visited)

\* the declaration VisitDecl handled last, when it matched a record
LastMatched == Traversing /\ visited > 0 /\ Matched(ast[visited])

LastSlots == MatchedRecord(ast[visited]).slot_inference

LastRemarks == SelectSeq(lastDiags, IsRemark)

\* C7 as amended: a slot inference with conflict = true is rendered like any
\* other, and its primary diagnostic names only the slot and the verdict: it
\* is the very diagnostic of the same slot and verdict with conflict = false.
C7_ConflictNotFlagged ==
    LastMatched =>
        /\ Len(LastRemarks) <= Len(LastSlots)
        /\ (pc # "aborted" => Len(LastRemarks) = Len(LastSlots))
        /\ \A k \in DOMAIN LastRemarks :
              /\ LastRemarks[k] = ClaimedPrimary(ast[visited], LastSlots[k])
              /\ LastRemarks[k] =
                    ReportInferHere(ast[visited].loc, [LastSlots[k] EXCEPT !.conflict = ~@])

\* the primary diagnostic of a slot inference with conflict = true was emitted
C7_Witness ==
    /\ LastMatched
    /\ \E k \in DOMAIN LastRemarks : LastSlots[k].conflict

\* C7: the diagnostic emitted for a slot inference with conflict = true is
\* flagged as conflicting: it differs from the diagnostic for the same slot
\* and verdict with conflict = false.
C7_ConflictFlaggedAsClaimed ==
    LastMatched =>
        \A k \in DOMAIN LastRemarks :
            LastSlots[k].conflict =>
                LastRemarks[k] #
                    ReportInferHere(ast[visited].loc, [LastSlots[k] EXCEPT !.conflict = FALSE])

\* C8 as amended: a declaration for which the identifier generator fails is
\* skipped: nothing is reported for it, the run goes on, and the traversal
\* ends only when every declaration was visited.
C8_FailureSkipsDecl ==
    /\ (Traversing /\ visited > 0 /\ ast[visited].usrFails) =>
          (lastDiags = <<>> /\ pc \in {"traverse", "done"})
    /\ (Traversing /\ pc = "done") => visited = Len(ast)

\* a declaration after one without identifier had its diagnostics emitted
C8_Witness ==
    /\ Traversing
    /\ visited > 1
    /\ ast[visited - 1].usrFails
    /\ lastDiags # <<>>

\* C8: an identifier-generation failure is fatal: the visit of the failing
\* declaration is the last one and the run is aborted.
C8_FailureFatalAsClaimed ==
    Traversing =>
        \A i \in 1..visited : ast[i].usrFails => (visited = i /\ pc = "aborted")

-----------------------------------------------------------------------------
(* Claims about getNullabilityAnnotationsFromType *)

Returned == pc = "extract_returned"

\* Two<int* _Nullable>, which the alias template Two expands to
\* Pair<int* _Nullable, int* _Nullable>
TwoNullablePointers == AliasApp("Two", <<Attr("Nullable", Ptr(Builtin))>>)

\* a class nested in a class-template specialisation, whatever the argument
IsNestedClass(t) == Canon(t, <<>>).k = "nested"

\* a type without any pointer in it
IsBuiltin(t) == Canon(t, <<>>).k = "builtin"

\* C9: for every type whose outermost structure is not a pointer, class-
\* template specialisations with pointer arguments and classes nested in
\* them included, the returned vector is empty.
C9_NonPointerEmptyAsClaimed ==
    (Returned /\ ~IsPointerType(typeIn)) => annotations = <<>>

\* C9 as amended: for a type whose outermost structure is not a pointer the
\* vector is empty when the type is a builtin type or a class nested in a
\* class-template specialisation, whatever that specialisation's argument;
\* it is not empty for every class-template specialisation:
\* Two<int* _Nullable>, that is Pair<int* _Nullable, int* _Nullable>, gives
\* [Nullable, Nullable].
C9_NonPointerAmended ==
    (Returned /\ ~IsPointerType(typeIn)) =>
        /\ (IsBuiltin(typeIn) \/ IsNestedClass(typeIn)) => annotations = <<>>
        /\ typeIn = TwoNullablePointers => annotations = <<"Nullable", "Nullable">>

\* the vector of Two<int* _Nullable> was returned
C9_Witness ==
    /\ Returned
    /\ typeIn = TwoNullablePointers
    /\ annotations = <<"Nullable", "Nullable">>

\* the empty vector of a class nested in a specialisation with a pointer
\* argument was returned
C9_NestedWitness ==
    /\ Returned
    /\ typeIn = Nested("Outer::Inner", <<Attr("NonNull", Ptr(Builtin))>>)
    /\ annotations = <<>>

RECURSIVE IsPointerChain(_)
\* nested pointer levels, each written directly, through the plain alias or
\* through an alias template that expands to a pointer or an annotated type
IsPointerChain(t) ==
    CASE t.k = "builtin"        -> TRUE
      [] t.k = "pointer"        -> IsPointerChain(t.a[1])
      [] t.k = "attributed"     -> IsPointerChain(t.a[1])
      [] t.k = "typedef"        -> TRUE
      [] t.k = "alias_template" ->
            t.d \in {"Nullable", "Nonnull", "A", "B"} /\ IsPointerChain(t.a[1])
      [] OTHER                  -> FALSE

RECURSIVE Subst(_, _)
\* t with every use of a template parameter replaced by its argument
Subst(t, args) ==
    IF t.k = "param" THEN args[t.i]
    ELSE [t EXCEPT !.a = [j \in DOMAIN t.a |-> Subst(t.a[j], args)]]

RECURSIVE Expand(_)
\* a pointer chain with every alias replaced by what it expands to
Expand(t) ==
    CASE t.k = "builtin"        -> t
      [] t.k = "pointer"        -> Ptr(Expand(t.a[1]))
      [] t.k = "attributed"     -> Attr(t.n, Expand(t.a[1]))
      [] t.k = "typedef"        -> Expand(TypedefBody(t.d))
      [] t.k = "alias_template" -> Expand(Subst(AliasTemplateBody(t.d), t.a))

RECURSIVE LevelsOf(_, _)
\* the annotation attached to each pointer level of an expanded chain
LevelsOf(e, attached) ==
    CASE e.k = "builtin"    -> <<>>
      [] e.k = "attributed" -> LevelsOf(e.a[1], IF attached = "" THEN e.n ELSE attached)
      [] e.k = "pointer"    ->
            <<IF attached = "" THEN "Unspecified" ELSE attached>> \o LevelsOf(e.a[1], "")

RECURSIVE ChainDepth(_)
ChainDepth(e) ==
    CASE e.k = "builtin"    -> 0
      [] e.k = "attributed" -> ChainDepth(e.a[1])
      [] e.k = "pointer"    -> 1 + ChainDepth(e.a[1])

NullableOfNonnull ==
    AliasApp("Nullable", <<Ptr(AliasApp("Nonnull", <<Ptr(Builtin)>>))>>)

\* C10: for n nested pointer levels, each written directly or through a
\* plain alias or an alias-template application, the vector has exactly n
\* entries outer-to-inner, the i-th being the annotation attached to the i-th
\* level (looking through the alias at that level) and Unspecified when the
\* level carries none: Nullable<Nonnull<T*>*> gives [Nullable, NonNull], X*
\* with X = T* _Nonnull gives [Unspecified, NonNull], and Alias<T*> with
\* Alias<X> = X _Nonnull gives what T* _Nonnull gives.
C10_OneEntryPerLevel ==
    (Returned /\ IsPointerChain(typeIn)) =>
        /\ Len(annotations) = ChainDepth(Expand(typeIn))
        /\ annotations = LevelsOf(Expand(typeIn), "")
        /\ typeIn = NullableOfNonnull => annotations = <<"Nullable", "NonNull">>
        /\ typeIn = Ptr(Typedef("X")) => annotations = <<"Unspecified", "NonNull">>
        /\ typeIn = AliasApp("Nonnull", <<Ptr(Builtin)>>) =>
              annotations = getNullabilityAnnotationsFromType(Attr("NonNull", Ptr(Builtin)))

\* the vector of Nullable<Nonnull<int*>*> was returned
C10_Witness ==
    /\ Returned
    /\ typeIn = NullableOfNonnull
    /\ annotations = <<"Nullable", "NonNull">>

-----------------------------------------------------------------------------
(* Claims about the evidence aggregator *)

\* some item of ev implies the nullability n
SomeImplies(ev, n) == \E i \in DOMAIN ev : Implied(ev[i].kind) = n

\* the entries of the returned record for one slot
EntriesFor(slot) ==
    {i \in DOMAIN aggregated.slot_inference : aggregated.slot_inference[i].slot = slot}

\* C11: in a record produced by aggregate, a slot inference has conflict = true
\* iff the slot's evidence has an item implying non-null and an item implying
\* nullable; when all items agree the verdict is the nullability they imply and
\* conflict = false; a slot with no evidence has no entry in the record (it is
\* not an Unspecified entry).
C11_AggregateInvariant ==
    pc = "aggregate_returned" =>
        /\ aggregated.usr = symbol
        /\ \A i \in DOMAIN aggregated.slot_inference :
              LET S  == aggregated.slot_inference[i]
                  ev == perSlotEvidence[S.slot]
              IN  /\ S.slot \in Slots
                  /\ S.sample_evidence = ev
                  /\ S.conflict = (SomeImplies(ev, "NONNULL") /\ SomeImplies(ev, "NULLABLE"))
                  /\ (\A n \in {"NONNULL", "NULLABLE"} :
                         (ev # <<>> /\ \A j \in DOMAIN ev : Implied(ev[j].kind) = n) =>
                             (S.nullability = n /\ ~S.conflict))
        /\ \A slot \in Slots :
              /\ perSlotEvidence[slot] = <<>> => EntriesFor(slot) = {}
              /\ perSlotEvidence[slot] # <<>> => Cardinality(EntriesFor(slot)) = 1

\* every record a run may start from is one the aggregator produces
RecordPoolAggregated ==
    \A r \in RecordPool :
        \E bestEffort \in Nullabilities :
            r = aggregate(r.usr,
                          [slot \in Slots |->
                              IF \E i \in DOMAIN r.slot_inference : r.slot_inference[i].slot = slot
                              THEN LET i == CHOOSE i \in DOMAIN r.slot_inference :
                                                r.slot_inference[i].slot = slot
                                   IN  r.slot_inference[i].sample_evidence
                              ELSE <<>>],
                          bestEffort)

\* the end-to-end scenario: an annotated slot, a slot whose two items disagree,
\* and a slot without evidence, which is left out of the record
C11_Witness ==
    /\ pc = "aggregate_returned"
    /\ perSlotEvidence[SLOT_RETURN_TYPE] = <<Ev("ANNOTATED_NONNULL", <<>>)>>
    /\ perSlotEvidence[SLOT_PARAM] =
           <<Ev("UNCHECKED_DEREFERENCE", <<>>), Ev("NULLABLE_ARGUMENT", <<>>)>>
    /\ perSlotEvidence[SLOT_PARAM + 1] = <<>>
    /\ Len(aggregated.slot_inference) = 2
    /\ aggregated.slot_inference[1] =
           SI(SLOT_RETURN_TYPE, "NONNULL", FALSE, <<Ev("ANNOTATED_NONNULL", <<>>)>>)
    /\ isTrivial(aggregated.slot_inference[1])
    /\ aggregated.slot_inference[2].slot = SLOT_PARAM
    /\ aggregated.slot_inference[2].conflict
    /\ ~isTrivial(aggregated.slot_inference[2])

-----------------------------------------------------------------------------
(* Claims about a whole run *)

\* the aggregator hands back one record per symbol
OnePerSymbol ==
    \A i, j \in DOMAIN inferred : inferred[i].usr = inferred[j].usr => i = j

PastPrune == pc \in {"protos", "diagnostics", "traverse", "done", "aborted"}

PastProtos == pc \in {"diagnostics", "traverse", "done", "aborted"}

Finished == pc \in {"done", "aborted"}

\* the collection both output paths are to work from
ClaimedCollection ==
    IF IncludeTrivial THEN inferred ELSE PrunedByDefinition(inferred)

\* the records of collection R that the declaration matches
MatchesIn(FD, R) == {i \in DOMAIN R : ~FD.usrFails /\ R[i].usr = FD.usr}

\* the diagnostics of a declaration, were they rendered from the claimed collection
ExpectedDiags(FD) ==
    IF MatchesIn(FD, ClaimedCollection) # {}
    THEN LET i == CHOOSE i \in MatchesIn(FD, ClaimedCollection) : TRUE
         IN  ClaimedSlotsFrom(FD, ClaimedCollection[i].slot_inference, 1)
    ELSE <<>>

RECURSIVE ExpectedDiagsUpTo(_)
ExpectedDiagsUpTo(n) ==
    IF n = 0 THEN <<>> ELSE ExpectedDiagsUpTo(n - 1) \o ExpectedDiags(ast[n])

IsPrefix(s, t) == Len(s) <= Len(t) /\ s = SubSeq(t, 1, Len(s))

\* every slot inference of the record is trivial
AllTrivial(r) ==
    \A k \in DOMAIN r.slot_inference : TrivialByDefinition(r.slot_inference[k])

\* pruning comes before both output paths, which work from the one pruned collection
PrunedBeforeOutput ==
    /\ ~PastPrune => (outs = <<>> /\ diags = <<>>)
    /\ PastPrune => Results = ClaimedCollection
    /\ outs = IF PastProtos /\ PrintProtos THEN ClaimedCollection ELSE <<>>
    /\ IsPrefix(diags, ExpectedDiagsUpTo(visited))

\* the same, but for the raw output of an aborted run, which is lost when
\* llvm::outs() was buffering
PrunedBeforeOutputOrLost ==
    /\ ~PastPrune => (outs = <<>> /\ diags = <<>>)
    /\ PastPrune => Results = ClaimedCollection
    /\ outs = IF PastProtos /\ PrintProtos /\ ~(pc = "aborted" /\ outsBuffered)
              THEN ClaimedCollection
              ELSE <<>>
    /\ IsPrefix(diags, ExpectedDiagsUpTo(visited))

\* with include-trivial = false nothing trivial is printed or diagnosed
NothingTrivialEmitted ==
    ~IncludeTrivial =>
        /\ \A i \in DOMAIN outs : \A k \in DOMAIN outs[i].slot_inference :
              ~TrivialByDefinition(outs[i].slot_inference[k])
        /\ \A n \in 1..visited : \A i \in MatchesIn(ast[n], inferred) :
              /\ \A k \in DOMAIN inferred[i].slot_inference :
                    TrivialByDefinition(inferred[i].slot_inference[k]) =>
                        \A d \in DOMAIN diags :
                            diags[d] # ClaimedPrimary(ast[n], inferred[i].slot_inference[k])
              /\ AllTrivial(inferred[i]) =>
                    \A d \in DOMAIN diags :
                        IsRemark(diags[d]) => diags[d].loc # ast[n].loc

\* with include-trivial = true every slot inference is printed and diagnosed
EverythingEmitted ==
    IncludeTrivial =>
        /\ (PastProtos /\ PrintProtos) =>
              \A i \in DOMAIN inferred : \A k \in DOMAIN inferred[i].slot_inference :
                  \E j \in DOMAIN outs :
                      /\ outs[j].usr = inferred[i].usr
                      /\ \E l \in DOMAIN outs[j].slot_inference :
                            outs[j].slot_inference[l] = inferred[i].slot_inference[k]
        /\ (Finished /\ Diagnostics) =>
              \A n \in DOMAIN ast : \A i \in MatchesIn(ast[n], inferred) :
                  \A k \in DOMAIN inferred[i].slot_inference :
                      \E d \in DOMAIN diags :
                          diags[d] = ClaimedPrimary(ast[n], inferred[i].slot_inference[k])

\* render-evidence without render-diagnostics emits nothing
EvidenceAloneEmitsNothing == ~Diagnostics => diags = <<>>

\* C12: in one run pruning is applied before both output paths, so the raw
\* records and the diagnostics come from the same collection: with
\* include-trivial = false no printed record holds a trivial slot inference and
\* no diagnostic (primary or note) is emitted for a trivial slot inference or
\* for a symbol all of whose slot inferences are trivial; with include-trivial
\* = true every slot inference the aggregation produced is in the raw output
\* and gets its primary diagnostic at each matching declaration; render-evidence
\* without render-diagnostics emits nothing.
C12_RunAsClaimed ==
    OnePerSymbol =>
        /\ PrunedBeforeOutput
        /\ NothingTrivialEmitted
        /\ EverythingEmitted
        /\ EvidenceAloneEmitsNothing

\* in a run that has not aborted inside parseLoc, all of C12 holds
RunAsClaimedUnlessAborted ==
    (OnePerSymbol /\ pc # "aborted") =>
        (PrunedBeforeOutput /\ NothingTrivialEmitted /\ EverythingEmitted
            /\ EvidenceAloneEmitsNothing)

\* and in every run, aborted or not, all of it but the completeness of the
\* raw output and of the primary diagnostics
RunAsClaimedButCompleteness ==
    OnePerSymbol =>
        (PrunedBeforeOutputOrLost /\ NothingTrivialEmitted /\ EvidenceAloneEmitsNothing)

\* an aborted run whose raw output was lost in the buffer of llvm::outs()
RunAbortedOutputLost ==
    /\ OnePerSymbol
    /\ pc = "aborted"
    /\ PrintProtos /\ outsBuffered
    /\ Results # <<>>
    /\ outs = <<>>

\* a finished run with include-trivial = false that printed and diagnosed a
\* record from which a trivial slot inference had been pruned
RunPrunedThenEmitted ==
    /\ OnePerSymbol
    /\ pc = "done"
    /\ ~IncludeTrivial /\ PrintProtos /\ Diagnostics /\ PrintEvidence
    /\ outs # <<>> /\ diags # <<>>
    /\ outs # inferred
    /\ \E i \in DOMAIN inferred : ~AllTrivial(inferred[i]) /\
          \E k \in DOMAIN inferred[i].slot_inference :
              TrivialByDefinition(inferred[i].slot_inference[k])

====
